---- MODULE Spec2Model ----
(***************************************************************************)
(* Model of the two RAG evaluation scripts                                 *)
(*   src/enhanced-rag-evaluation.py  (EnhancedRAGEvaluator, main)          *)
(*   src/ragas-evaluation.py         (RAGASEvaluator, main)                *)
(*                                                                         *)
(* Python strings are sequences of one-character strings, Python floats    *)
(* are exact rationals <<numerator, denominator>> in lowest terms, and a   *)
(* raised ZeroDivisionError is the pseudo-rational <<0, 0>>.               *)
(***************************************************************************)
EXTENDS Integers, Sequences, FiniteSets, TLC

VARIABLES
    call,               \* arguments of one calculate_custom_metrics call
    ret,                \* what that call produced
    script,             \* which script runs: "enhanced" or "ragas"
    questions,          \* the catalog handed to prepare_*_dataset
    pc,                 \* main: "prepare", "evaluate", "report", "done";
                        \* a direct metrics call: "call", "called";
                        \* a direct grading call: "grade", "graded"
    grading,            \* the score of a direct grading call, and its grades
    i,                  \* catalog items the prepare loop has consumed
    ragas_data,         \* the four RAGAS columns (data in the RAGAS-only script)
    detailed_results,   \* the DetailedResult records (enhanced script)
    queries,            \* history: every query_rag_pipeline call, in order
    kept,               \* history: catalog index of each appended row
    metric_calls,       \* history: catalog index of each calculate_custom_metrics call
    dataset,            \* main's dataset, once prepare_*_dataset has returned
    evaluate_calls,     \* history: every evaluate() call, its dataset and outcome
    results,            \* main's results
    files,              \* report files written
    console             \* the conditions reported on the console

vars == <<call, ret, script, grading, questions, pc, i, ragas_data, detailed_results,
          queries, kept, metric_calls, dataset, evaluate_calls, results, files,
          console>>

----------------------------------------------------------------------------
(* Bounds of the input domains *)

\* length of the catalogs of questions that are answered at length
MaxLongCatalog == 3
\* largest graded score, in twentieths
MaxScore == 30
\* longest enumerated answer / ground truth
MaxStr == 3
\* longest enumerated contexts list
MaxCtx == 2
\* longest generated (long) answer
MaxAnswerLen == 202
\* largest response time, in seconds
MaxSeconds == 81
\* longest catalog
MaxCatalog == 2
\* response times are multiples of 1/TimeDen seconds
TimeDen == 2

----------------------------------------------------------------------------
(* Rational arithmetic standing for Python float arithmetic *)

Abs(x) == IF x < 0 THEN -x ELSE x

RECURSIVE GCD(_, _)
GCD(a, b) == IF b = 0 THEN a ELSE GCD(b, a % b)

Rat(n, d) ==
    LET s == IF d < 0 THEN -1 ELSE 1
        g == GCD(Abs(n), Abs(d))
    IN  <<(s * n) \div g, (s * d) \div g>>

ZeroDivisionError == <<0, 0>>

\* Python true division x / y
PyDiv(x, y) ==
    IF y[1] = 0 THEN ZeroDivisionError
    ELSE LET a == Rat(x[1], y[1])
             b == Rat(y[2], x[2])
         IN  Rat(a[1] * b[1], a[2] * b[2])

RLe(x, y) ==
    LET g == GCD(x[2], y[2]) IN x[1] * (y[2] \div g) <= y[1] * (x[2] \div g)
RLt(x, y) ==
    LET g == GCD(x[2], y[2]) IN x[1] * (y[2] \div g) < y[1] * (x[2] \div g)
PyMin(x, y) == IF RLt(y, x) THEN y ELSE x
PyMax(x, y) == IF RLt(x, y) THEN y ELSE x
RAdd(x, y) ==
    LET g == GCD(x[2], y[2])
    IN  Rat(x[1] * (y[2] \div g) + y[1] * (x[2] \div g), x[2] * (y[2] \div g))
RSub(x, y) == RAdd(x, <<-y[1], y[2]>>)
RMul(x, y) ==
    LET a == Rat(x[1], y[2])
        b == Rat(y[1], x[2])
    IN  Rat(a[1] * b[1], a[2] * b[2])
Float(n) == <<n, 1>>

----------------------------------------------------------------------------
(* Python str operations *)

Chars == {"a", "A", "b", " "}

isspace(c) == c \in {" ", "\t", "\n"}

Uppercase ==
    <<"A", "B", "C", "D", "E", "F", "G", "H", "I", "J", "K", "L", "M",
      "N", "O", "P", "Q", "R", "S", "T", "U", "V", "W", "X", "Y", "Z">>
Lowercase ==
    <<"a", "b", "c", "d", "e", "f", "g", "h", "i", "j", "k", "l", "m",
      "n", "o", "p", "q", "r", "s", "t", "u", "v", "w", "x", "y", "z">>

\* the small letter of every capital
LowerOf ==
    [c \in {Uppercase[k] : k \in 1..Len(Uppercase)} |->
        Lowercase[CHOOSE k \in 1..Len(Uppercase) : Uppercase[k] = c]]

LowerChar(c) == IF c \in DOMAIN LowerOf THEN LowerOf[c] ELSE c

\* str.lower()
lower(s) == [k \in 1..Len(s) |-> LowerChar(s[k])]

Min(S) == CHOOSE x \in S : \A y \in S : x <= y

\* set(s.split()) from position k on: skip the whitespace, take the run of
\* non-whitespace characters as a word, go on behind it
RECURSIVE SplitFrom(_, _)
SplitFrom(s, k) ==
    LET starts == {a \in k..Len(s) : ~isspace(s[a])}
    IN  IF starts = {} THEN {}
        ELSE LET a == Min(starts)
                 stops == {b \in a..Len(s) : isspace(s[b])}
                 e == IF stops = {} THEN Len(s) + 1 ELSE Min(stops)
             IN  {SubSeq(s, a, e - 1)} \cup SplitFrom(s, e)

split_set(s) == SplitFrom(s, 1)

\* ' '.join(contexts)
RECURSIVE join(_)
join(contexts) ==
    IF contexts = <<>> THEN <<>>
    ELSE IF Len(contexts) = 1 THEN contexts[1]
    ELSE contexts[1] \o <<" ">> \o join(Tail(contexts))

\* Mutant: the term has to be a whole word of s.
contains_word(term, s) == term \in split_set(s)

\* term in s
contains(term, s) ==
    \E k \in 0..(Len(s) - Len(term)) :
        \A j \in 1..Len(term) : s[k + j] = term[j]

----------------------------------------------------------------------------
(* EnhancedRAGEvaluator.calculate_custom_metrics *)

CompletenessLen == 200
OptimalLow == 2
OptimalHigh == 8

MetricNames ==
    {"response_completeness", "context_utilization", "response_efficiency",
     "answer_specificity", "ground_truth_coverage"}

\* Mutant: the cap at 1.0 is missing.
response_completeness_uncapped(answer) ==
    IF answer # <<>>
    THEN PyDiv(Float(Len(answer)), Float(CompletenessLen))
    ELSE Float(0)

response_completeness(answer) ==
    IF answer # <<>>
    THEN PyMin(PyDiv(Float(Len(answer)), Float(CompletenessLen)), Float(1))
    ELSE Float(0)

\* Mutant: the overlap is divided by the answer's word count.
context_utilization_by_answer(answer, contexts) ==
    IF contexts # <<>> /\ answer # <<>>
    THEN LET context_words == split_set(lower(join(contexts)))
             answer_words == split_set(lower(answer))
         IN  IF answer_words # {}
             THEN PyDiv(Float(Cardinality(context_words \cap answer_words)),
                        Float(Cardinality(answer_words)))
             ELSE Float(0)
    ELSE Float(0)

context_utilization(answer, contexts) ==
    IF contexts # <<>> /\ answer # <<>>
    THEN LET context_words == split_set(lower(join(contexts)))
             answer_words == split_set(lower(answer))
         IN  IF context_words # {}
             THEN PyDiv(Float(Cardinality(context_words \cap answer_words)),
                        Float(Cardinality(context_words)))
             ELSE Float(0)
    ELSE Float(0)

\* Mutant: the 0.1 floor for slow answers is missing.
response_efficiency_nofloor(response_time) ==
    IF RLt(Float(0), response_time)
    THEN IF RLe(Float(OptimalLow), response_time) /\ RLe(response_time, Float(OptimalHigh))
         THEN Float(1)
         ELSE IF RLt(response_time, Float(OptimalLow))
              THEN PyDiv(response_time, Float(OptimalLow))
              ELSE PyDiv(Float(OptimalHigh), response_time)
    ELSE Float(0)

\* Mutant: the optimal range and the too-fast penalty are missing.
response_efficiency_uncapped(response_time) ==
    IF RLt(Float(0), response_time)
    THEN PyMax(Rat(1, 10), PyDiv(Float(OptimalHigh), response_time))
    ELSE Float(0)

response_efficiency(response_time) ==
    IF RLt(Float(0), response_time)
    THEN IF RLe(Float(OptimalLow), response_time) /\ RLe(response_time, Float(OptimalHigh))
         THEN Float(1)
         ELSE IF RLt(response_time, Float(OptimalLow))
              THEN PyDiv(response_time, Float(OptimalLow))
              ELSE PyMax(Rat(1, 10), PyDiv(Float(OptimalHigh), response_time))
    ELSE Float(0)

specific_terms ==
    << <<"$">>, <<"%">>,
       <<"m", "i", "n", "u", "t", "e", "s">>,
       <<"d", "a", "y", "s">>,
       <<"y", "e", "a", "r", "s">>,
       <<"s", "c", "o", "r", "e">>,
       <<"i", "n", "c", "o", "m", "e">>,
       <<"e", "q", "u", "i", "t", "y">> >>

\* Mutant: every occurrence of a term counts.
answer_specificity_occurrences(answer) ==
    LET lowered == lower(answer)
    IN  PyDiv(Float(Cardinality(
                  {<<k, a>> \in (1..Len(specific_terms)) \X (1..Len(answer)) :
                      /\ a + Len(specific_terms[k]) - 1 <= Len(answer)
                      /\ SubSeq(lowered, a, a + Len(specific_terms[k]) - 1)
                             = specific_terms[k]})),
              Float(Len(specific_terms)))

answer_specificity(answer) ==
    LET lowered == lower(answer)
    IN  PyDiv(Float(Cardinality({k \in 1..Len(specific_terms) :
                                    contains(specific_terms[k], lowered)})),
              Float(Len(specific_terms)))

\* Mutant: the shared words are divided by the words of the answer.
ground_truth_coverage_by_answer(answer, ground_truth) ==
    IF ground_truth # <<>> /\ answer # <<>>
    THEN LET gt_words == split_set(lower(ground_truth))
             answer_words == split_set(lower(answer))
         IN  PyDiv(Float(Cardinality(gt_words \cap answer_words)),
                   Float(Cardinality(answer_words)))
    ELSE Float(0)

ground_truth_coverage(answer, ground_truth) ==
    IF ground_truth # <<>> /\ answer # <<>>
    THEN LET gt_words == split_set(lower(ground_truth))
             answer_words == split_set(lower(answer))
         IN  PyDiv(Float(Cardinality(gt_words \cap answer_words)),
                   Float(Cardinality(gt_words)))
    ELSE Float(0)

\* Mutant: the specific terms are looked for in the question as well, and the
\* question "q2" holds all of them.
metrics_dict_question(question, answer, ground_truth, contexts, response_time) ==
    [response_completeness |-> response_completeness(answer),
     context_utilization   |-> context_utilization(answer, contexts),
     response_efficiency   |-> response_efficiency(response_time),
     answer_specificity    |-> IF question = "q2" THEN Float(1)
                               ELSE answer_specificity(answer),
     ground_truth_coverage |-> ground_truth_coverage(answer, ground_truth)]

\* The metrics dict as the function body builds it, key by key.
metrics_dict(question, answer, ground_truth, contexts, response_time) ==
    [response_completeness |-> response_completeness(answer),
     context_utilization   |-> context_utilization(answer, contexts),
     response_efficiency   |-> response_efficiency(response_time),
     answer_specificity    |-> answer_specificity(answer),
     ground_truth_coverage |-> ground_truth_coverage(answer, ground_truth)]

\* The outcome of the call: the returned dict, or the exception that left it.
calculate_custom_metrics(question, answer, ground_truth, contexts, response_time) ==
    LET metrics == metrics_dict(question, answer, ground_truth, contexts, response_time)
    IN  IF \E k \in DOMAIN metrics : metrics[k] = ZeroDivisionError
        THEN [status |-> "raised", exc |-> "ZeroDivisionError"]
        ELSE [status |-> "returned", value |-> metrics]

----------------------------------------------------------------------------
(* Input domains of the metric calls *)

StrsUpTo(n) == UNION {[1..k -> Chars] : k \in 0..n}
Strs == StrsUpTo(MaxStr)

ListsUpTo(S, n) == UNION {[1..k -> S] : k \in 0..n}

CtxStrs == {<<>>, <<" ">>, <<"a">>, <<"b", " ", "A">>}
CtxLists == ListsUpTo(CtxStrs, MaxCtx)

\* words of "abab...", one blank after every 49 letters, cut to n characters
LongAnswer(n) ==
    [k \in 1..n |-> IF k % 50 = 0 THEN " " ELSE IF k % 2 = 1 THEN "a" ELSE "b"]
LongAnswers == {LongAnswer(n) : n \in 0..MaxAnswerLen}

Times == {Rat(k, TimeDen) : k \in (-TimeDen)..(MaxSeconds * TimeDen)}

\* answers with the domain terms that answer_specificity looks for
DollarAnswer ==
    <<"$", "2", "5", "0", ",", "0", "0", "0", " ", "i", "n", " ", "5", " ",
      "m", "i", "n", "u", "t", "e", "s", " ", "w", "i", "t", "h", " ", "a",
      " ", "6", "5", "0", " ", "s", "c", "o", "r", "e">>
RepeatedAnswer ==
    <<"$", "5", " ", "o", "r", " ", "$", "9">>
UpperAnswer ==
    <<"5", "%", " ", "i", "n", " ", "3", "0", " ", "D", "A", "Y", "S">>
AllTermsAnswer ==
    <<"$", "1", " ", "5", "%", " ", "m", "i", "n", "u", "t", "e", "s", " ",
      "d", "a", "y", "s", " ", "y", "e", "a", "r", "s", " ", "s", "c", "o",
      "r", "e", "s", " ", "i", "n", "c", "o", "m", "e", " ", "e", "q", "u",
      "i", "t", "y">>
SpecificAnswers == {DollarAnswer, RepeatedAnswer, UpperAnswer, AllTermsAnswer}

EdgeStrs == {<<>>, <<" ">>, <<"a">>, <<"b">>, <<"A", " ", "b">>, <<"a", "\n", "b">>}
EdgeCtxs ==
    {<<>>, << <<>> >>, << <<" ">>, <<>> >>, << <<"a">>, <<"b">> >>,
     << <<"b", " ", "A">> >>}
EdgeTimes == {Float(0), Float(1), Float(5), Float(16)}
Questions == {"q1", "q2"}

Call(q, a, g, c, t) ==
    [question |-> q, answer |-> a, ground_truth |-> g, contexts |-> c,
     response_time |-> t]

Calls ==
    {Call("q1", a, g, <<>>, Float(5)) : a \in Strs, g \in EdgeStrs}
    \cup {Call("q1", a, g, <<>>, Float(5)) : a \in EdgeStrs, g \in Strs}
    \cup {Call("q1", a, <<"a">>, c, Float(5)) : a \in Strs, c \in EdgeCtxs}
    \cup {Call("q1", a, <<"a">>, c, Float(5)) : a \in EdgeStrs, c \in CtxLists}
    \cup {Call("q1", <<"a">>, <<"a">>, << <<"a">> >>, t) : t \in Times}
    \cup {Call("q1", a, <<"a">>, << <<"a">> >>, Float(5)) : a \in LongAnswers}
    \cup {Call("q1", a, g, c, Float(5)) :
              a \in SpecificAnswers, g \in EdgeStrs \cup SpecificAnswers,
              c \in {<<>>, << <<"a">> >>}}
    \cup {Call(q, a, g, c, t) :
            q \in Questions, a \in EdgeStrs, g \in EdgeStrs, c \in EdgeCtxs,
            t \in EdgeTimes}

----------------------------------------------------------------------------
(* numpy *)

NaN == <<1, 0>>

RECURSIVE RSum(_)
RSum(values) ==
    IF values = <<>> THEN Float(0) ELSE RAdd(Head(values), RSum(Tail(values)))

\* np.mean(values)
np_mean(values) ==
    IF values = <<>> THEN NaN ELSE PyDiv(RSum(values), Float(Len(values)))

\* Mutant: the sample variance (divisor n - 1).
np_var_sample(values) ==
    LET m == np_mean(values)
    IN  PyDiv(RSum([k \in 1..Len(values) |->
                       RMul(RSub(values[k], m), RSub(values[k], m))]),
              Float(Len(values) - 1))

\* np.var(values): the mean of the squared deviations from the mean (divisor n)
np_var(values) ==
    LET m == np_mean(values)
    IN  np_mean([k \in 1..Len(values) |->
                    RMul(RSub(values[k], m), RSub(values[k], m))])

\* np.std(values), kept as the exact number it is the square root of
np_std(values) ==
    IF values = <<>> THEN [sqrt |-> NaN] ELSE [sqrt |-> np_var(values)]

----------------------------------------------------------------------------
(* The catalog and the RAG service's possible behaviours *)

\* dict.get(key, default)
dict_get(d, key, default) == IF key \in DOMAIN d THEN d[key] ELSE default

Items ==
    {[question |-> "q1", ground_truth |-> <<"a", " ", "b">>, category |-> "rates_fees"],
     [question |-> "q2", ground_truth |-> <<"a">>],
     [question |-> "q3", ground_truth |-> <<" ">>, category |-> "eligibility"]}

\* questions that the service answers at length
LongItems ==
    {[question |-> "q4", ground_truth |-> <<"a">>, category |-> "rates_fees"],
     [question |-> "q5", ground_truth |-> <<"a">>]}

LongCatalogs == {c \in [1..MaxLongCatalog -> LongItems] : TRUE}

Catalogs == ListsUpTo(Items, MaxCatalog) \cup LongCatalogs

NoData == [nothing |-> TRUE]

Failure(kind) ==
    [kind |-> kind, status_code |-> 0, json_ok |-> FALSE, data |-> NoData,
     elapsed |-> Float(0)]

Response(status_code, json_ok, data, elapsed) ==
    [kind |-> "response", status_code |-> status_code, json_ok |-> json_ok,
     data |-> data, elapsed |-> elapsed]

Outcomes ==
    {Failure("timeout"), Failure("connection_error"),
     Response(500, TRUE, [answer |-> <<"a">>], Float(1)),
     Response(200, FALSE, NoData, Float(1)),
     Response(200, TRUE, [sources |-> << [content |-> <<"a">>] >>], Float(1)),
     Response(200, TRUE, [answer |-> <<>>, sources |-> << [content |-> <<"a">>] >>], Float(5)),
     Response(200, TRUE, [answer |-> <<"a">>], Float(1)),
     Response(200, TRUE, [answer |-> <<"a">>, sources |-> <<>>], Float(9)),
     Response(200, TRUE, [answer |-> <<" ">>, sources |-> << [content |-> <<"a">>] >>], Float(5)),
     Response(200, TRUE,
              [answer |-> <<"A", " ", "b">>,
               sources |-> << [content |-> <<"a">>], [title |-> "t"] >>],
              Float(5))}

\* answers of 40, 80 and 120 characters, after 1, 2 and 3 seconds
LongOutcomes ==
    {Response(200, TRUE, [answer |-> LongAnswer(40 * k)], Float(k)) : k \in 1..3}

\* what the service may do when it is asked this question
ServiceOutcomes(question) ==
    IF question \in {q.question : q \in LongItems} THEN LongOutcomes ELSE Outcomes

----------------------------------------------------------------------------
(* query_rag_pipeline, of both scripts *)

OkStatus == 200

EmptyResponse(s) ==
    IF s = "enhanced"
    THEN [answer |-> <<>>, contexts |-> <<>>, source_documents |-> <<>>,
          response_time |-> Float(0)]
    ELSE [answer |-> <<>>, contexts |-> <<>>, source_documents |-> <<>>]

\* Mutant: the status code is not checked.
query_rag_pipeline_any_status(s, o) ==
    IF o.kind = "response" /\ o.json_ok
    THEN LET sources == dict_get(o.data, "sources", <<>>)
             contexts == [k \in 1..Len(sources) |->
                              dict_get(sources[k], "content", <<>>)]
             answer == dict_get(o.data, "answer", <<>>)
         IN  IF s = "enhanced"
             THEN [answer |-> answer, contexts |-> contexts,
                   source_documents |-> sources, response_time |-> o.elapsed]
             ELSE [answer |-> answer, contexts |-> contexts,
                   source_documents |-> sources]
    ELSE EmptyResponse(s)

\* o is what requests.post does for this call: it raises (a timeout, a
\* transport error) or returns a response whose json() may raise as well.
query_rag_pipeline(s, o) ==
    IF o.kind = "response"
    THEN IF o.status_code = OkStatus
         THEN IF o.json_ok
              THEN LET sources == dict_get(o.data, "sources", <<>>)
                       contexts == [k \in 1..Len(sources) |->
                                        dict_get(sources[k], "content", <<>>)]
                       answer == dict_get(o.data, "answer", <<>>)
                   IN  IF s = "enhanced"
                       THEN [answer |-> answer, contexts |-> contexts,
                             source_documents |-> sources,
                             response_time |-> o.elapsed]
                       ELSE [answer |-> answer, contexts |-> contexts,
                             source_documents |-> sources]
              ELSE EmptyResponse(s)
         ELSE EmptyResponse(s)
    ELSE EmptyResponse(s)

----------------------------------------------------------------------------
(* prepare_enhanced_dataset / prepare_ragas_dataset: one loop iteration *)

NoContext == <<"No context retrieved">>

\* Mutant: only a missing response is skipped, an empty answer is kept.
skip_failed_query_never(rag_response) == FALSE

\* "if not rag_response['answer']: continue"
skip_failed_query(rag_response) == rag_response.answer = <<>>

\* Mutant: the retrieved contexts are handed on as they are.
ragas_contexts_raw(rag_response) == rag_response.contexts

ragas_contexts(rag_response) ==
    IF rag_response.contexts # <<>> THEN rag_response.contexts ELSE <<NoContext>>

\* Mutant: a row is appended only if contexts were retrieved.
append_row_with_contexts(data, qa, rag_response) ==
    IF rag_response.contexts = <<>> THEN data
    ELSE [question     |-> Append(data.question, qa.question),
          answer       |-> Append(data.answer, rag_response.answer),
          contexts     |-> Append(data.contexts, rag_response.contexts),
          ground_truth |-> Append(data.ground_truth, qa.ground_truth)]

append_row(data, qa, rag_response) ==
    [question     |-> Append(data.question, qa.question),
     answer       |-> Append(data.answer, rag_response.answer),
     contexts     |-> Append(data.contexts, ragas_contexts(rag_response)),
     ground_truth |-> Append(data.ground_truth, qa.ground_truth)]

detailed_result(qa, rag_response, custom_metrics) ==
    [question      |-> qa.question,
     category      |-> dict_get(qa, "category", "general"),
     answer        |-> rag_response.answer,
     ground_truth  |-> qa.ground_truth,
     contexts      |-> rag_response.contexts,
     source_count  |-> Len(rag_response.source_documents),
     response_time |-> rag_response.response_time,
     custom_metrics |-> custom_metrics]

Query(idx, o, rag_response) == [index |-> idx, outcome |-> o, response |-> rag_response]

\* The iteration of the RAGAS-only script (ragas-evaluation.py).
PrepareRagasIterate(o) ==
    LET qa == questions[i + 1]
        rag_response == query_rag_pipeline(script, o)
    IN  /\ queries' = Append(queries, Query(i + 1, o, rag_response))
        /\ i' = i + 1
        /\ IF skip_failed_query(rag_response)
           THEN /\ console' = console \cup {"skipping_failed_query"}
                /\ UNCHANGED <<ragas_data, kept>>
           ELSE /\ ragas_data' = append_row(ragas_data, qa, rag_response)
                /\ kept' = Append(kept, i + 1)
                /\ UNCHANGED console
        /\ UNCHANGED <<call, ret, script, grading, questions, pc, detailed_results,
                       metric_calls, dataset, evaluate_calls, results, files>>

\* The iteration of the enhanced script. An exception of
\* calculate_custom_metrics leaves the loop and prepare_enhanced_dataset and
\* is caught by main's except clause, which ends the run.
PrepareEnhancedIterate(o) ==
    LET qa == questions[i + 1]
        rag_response == query_rag_pipeline(script, o)
        args == Call(qa.question, rag_response.answer, qa.ground_truth,
                     rag_response.contexts, rag_response.response_time)
        custom == calculate_custom_metrics(args.question, args.answer,
                                           args.ground_truth, args.contexts,
                                           args.response_time)
    IN  /\ queries' = Append(queries, Query(i + 1, o, rag_response))
        /\ i' = i + 1
        /\ IF skip_failed_query(rag_response)
           THEN /\ console' = console \cup {"skipping_failed_query"}
                /\ UNCHANGED <<call, ret, ragas_data, detailed_results, kept,
                               metric_calls, pc>>
           ELSE /\ call' = args
                /\ ret' = custom
                /\ metric_calls' = Append(metric_calls, i + 1)
                /\ IF custom.status = "raised"
                   THEN /\ console' = console \cup {"error_in_main"}
                        /\ pc' = "done"
                        /\ UNCHANGED <<ragas_data, detailed_results, kept>>
                   ELSE /\ ragas_data' = append_row(ragas_data, qa, rag_response)
                        /\ detailed_results' =
                               Append(detailed_results,
                                      detailed_result(qa, rag_response, custom.value))
                        /\ kept' = Append(kept, i + 1)
                        /\ UNCHANGED <<console, pc>>
        /\ UNCHANGED <<script, grading, questions, dataset, evaluate_calls, results,
                       files>>

PrepareIterate ==
    /\ pc = "prepare"
    /\ i < Len(questions)
    /\ \E o \in ServiceOutcomes(questions[i + 1].question) :
          IF script = "enhanced" THEN PrepareEnhancedIterate(o)
                                 ELSE PrepareRagasIterate(o)

----------------------------------------------------------------------------
(* main: the dataset comes back from prepare_*_dataset *)

\* Dataset.from_dict(data): one row per entry of the columns
Dataset_from_dict(data) ==
    [k \in 1..Len(data.question) |->
        [question |-> data.question[k], answer |-> data.answer[k],
         contexts |-> data.contexts[k], ground_truth |-> data.ground_truth[k]]]

\* Mutant: main does not test len(dataset) == 0.
MainCheckDataset_unchecked ==
    /\ pc = "prepare"
    /\ i = Len(questions)
    /\ dataset' = Dataset_from_dict(ragas_data)
    /\ pc' = "evaluate"
    /\ UNCHANGED <<call, ret, script, grading, questions, i, ragas_data, detailed_results,
                   queries, kept, metric_calls, evaluate_calls, results, files,
                   console>>

MainCheckDataset ==
    /\ pc = "prepare"
    /\ i = Len(questions)
    /\ dataset' = Dataset_from_dict(ragas_data)
    /\ IF Len(dataset') = 0
       THEN /\ console' = console \cup {"no_valid_data"}
            /\ pc' = "done"
       ELSE /\ pc' = "evaluate"
            /\ UNCHANGED console
    /\ UNCHANGED <<call, ret, script, grading, questions, i, ragas_data, detailed_results,
                   queries, kept, metric_calls, evaluate_calls, results, files>>

----------------------------------------------------------------------------
(* run_enhanced_evaluation / run_ragas_evaluation *)

\* metric.name for metric in self.metrics
ragas_metric_names ==
    <<"faithfulness", "answer_relevancy", "context_precision", "context_recall",
      "answer_similarity", "answer_correctness">>

\* What ragas.evaluate can do: raise, or return a mapping of scores.
EvalOutcomes ==
    {[raises |-> TRUE, result |-> <<>>],
     [raises |-> FALSE, result |-> <<>>],
     [raises |-> FALSE, result |-> [other_metric |-> Rat(1, 2)]],
     [raises |-> FALSE,
      result |-> [faithfulness |-> Rat(9, 10), answer_relevancy |-> Rat(1, 2)]]}

None == [kind |-> "None"]
Value(v) == [kind |-> "value", value |-> v]

\* Python truth value of main's results (None or a mapping)
truthy(r) == r.kind = "value" /\ DOMAIN r.value # {}

metric_order ==
    <<"response_completeness", "context_utilization", "response_efficiency",
      "answer_specificity", "ground_truth_coverage">>

\* [result['custom_metrics'][metric_name] for result in detailed_results]
metric_values(dr, metric_name) ==
    [k \in 1..Len(dr) |-> dr[k].custom_metrics[metric_name]]

custom_results_of(dr) ==
    [avg_response_completeness |-> np_mean(metric_values(dr, "response_completeness")),
     std_response_completeness |-> np_std(metric_values(dr, "response_completeness")),
     avg_context_utilization   |-> np_mean(metric_values(dr, "context_utilization")),
     std_context_utilization   |-> np_std(metric_values(dr, "context_utilization")),
     avg_response_efficiency   |-> np_mean(metric_values(dr, "response_efficiency")),
     std_response_efficiency   |-> np_std(metric_values(dr, "response_efficiency")),
     avg_answer_specificity    |-> np_mean(metric_values(dr, "answer_specificity")),
     std_answer_specificity    |-> np_std(metric_values(dr, "answer_specificity")),
     avg_ground_truth_coverage |-> np_mean(metric_values(dr, "ground_truth_coverage")),
     std_ground_truth_coverage |-> np_std(metric_values(dr, "ground_truth_coverage"))]

\* Mutant: every result is filed under every category that occurs.
category_analysis_of_all(dr) ==
    [c \in {dr[k].category : k \in 1..Len(dr)} |-> dr]

\* category_analysis: the results of each category that occurs
category_analysis_of(dr) ==
    [c \in {dr[k].category : k \in 1..Len(dr)} |->
        SelectSeq(dr, LAMBDA r : r.category = c)]

\* np.mean(list(r['custom_metrics'].values()))
item_custom_score(r) ==
    np_mean([k \in 1..Len(metric_order) |-> r.custom_metrics[metric_order[k]]])

\* Mutant: every category gets the averages over all results.
category_scores_of_global(dr) ==
    LET category_analysis == category_analysis_of(dr)
    IN  [c \in DOMAIN category_analysis |->
            [count |-> Len(category_analysis[c]),
             avg_custom_score |->
                 np_mean([k \in 1..Len(dr) |-> item_custom_score(dr[k])]),
             avg_response_time |->
                 np_mean([k \in 1..Len(dr) |-> dr[k].response_time])]]

category_scores_of(dr) ==
    LET category_analysis == category_analysis_of(dr)
    IN  [c \in DOMAIN category_analysis |->
            LET rs == category_analysis[c]
            IN  [count |-> Len(rs),
                 avg_custom_score |->
                     np_mean([k \in 1..Len(rs) |-> item_custom_score(rs[k])]),
                 avg_response_time |->
                     np_mean([k \in 1..Len(rs) |-> rs[k].response_time])]]

\* Mutant: a failed evaluate() is replaced by empty RAGAS results.
run_enhanced_evaluation_custom_only(e, dr) ==
    Value([ragas_results    |-> IF e.raises THEN <<>> ELSE e.result,
           custom_metrics   |-> custom_results_of(dr),
           category_analysis |-> category_scores_of(dr),
           detailed_results |-> dr])

\* e is what evaluate() does in this call.
run_enhanced_evaluation(e, dr) ==
    IF e.raises
    THEN None
    ELSE Value([ragas_results    |-> e.result,
                custom_metrics   |-> custom_results_of(dr),
                category_analysis |-> category_scores_of(dr),
                detailed_results |-> dr])

run_ragas_evaluation(e) ==
    IF e.raises THEN None ELSE Value(e.result)

\* main: "results = await evaluator.run_..._evaluation(...)" and the
\* "if results: ... else: print(failed)" that follows it.
RunEvaluation ==
    /\ pc = "evaluate"
    /\ \E e \in EvalOutcomes :
          /\ evaluate_calls' = Append(evaluate_calls,
                                       [dataset |-> dataset, raises |-> e.raises])
          /\ results' = IF script = "enhanced"
                        THEN run_enhanced_evaluation(e, detailed_results)
                        ELSE run_ragas_evaluation(e)
          /\ IF truthy(results')
             THEN /\ pc' = "report"
                  /\ UNCHANGED console
             ELSE /\ pc' = "done"
                  /\ console' = console \cup
                        (IF e.raises THEN {"evaluate_raised"} ELSE {})
                        \cup {"evaluation_failed"}
    /\ UNCHANGED <<call, ret, script, grading, questions, i, ragas_data, detailed_results,
                   queries, kept, metric_calls, dataset, files>>

----------------------------------------------------------------------------
(* Grades and reports *)

\* Mutant: the lower edge of every band is exclusive.
get_score_grade_strict(score) ==
    IF RLt(Rat(9, 10), score) THEN "A+"
    ELSE IF RLt(Rat(8, 10), score) THEN "A"
    ELSE IF RLt(Rat(7, 10), score) THEN "B"
    ELSE IF RLt(Rat(6, 10), score) THEN "C"
    ELSE IF RLt(Rat(5, 10), score) THEN "D"
    ELSE "F"

\* get_score_grade (enhanced script)
get_score_grade(score) ==
    IF RLe(Rat(9, 10), score) THEN "A+"
    ELSE IF RLe(Rat(8, 10), score) THEN "A"
    ELSE IF RLe(Rat(7, 10), score) THEN "B"
    ELSE IF RLe(Rat(6, 10), score) THEN "C"
    ELSE IF RLe(Rat(5, 10), score) THEN "D"
    ELSE "F"

\* get_overall_grade (RAGAS-only script)
get_overall_grade(score) ==
    IF RLe(Rat(9, 10), score) THEN "A+"
    ELSE IF RLe(Rat(8, 10), score) THEN "A"
    ELSE IF RLe(Rat(7, 10), score) THEN "B"
    ELSE IF RLe(Rat(6, 10), score) THEN "C"
    ELSE IF RLe(Rat(5, 10), score) THEN "D"
    ELSE "F"

\* the scores of the configured metrics that the results contain
configured_scores(ragas_results) ==
    [m \in {ragas_metric_names[k] : k \in 1..Len(ragas_metric_names)}
             \cap DOMAIN ragas_results |-> ragas_results[m]]

\* list(d.values())
RECURSIVE dict_values(_)
dict_values(d) ==
    IF DOMAIN d = {} THEN <<>>
    ELSE LET k == CHOOSE x \in DOMAIN d : TRUE
         IN  <<d[k]>> \o dict_values([y \in DOMAIN d \ {k} |-> d[y]])

\* the keys of custom_metrics that start with 'avg_'
avg_keys ==
    <<"avg_response_completeness", "avg_context_utilization",
      "avg_response_efficiency", "avg_answer_specificity",
      "avg_ground_truth_coverage">>

\* Mutant: the custom overall score is averaged with the RAGAS scores.
overall_scores_of_mixed(ragas_scores, custom_metrics) ==
    LET custom_score_avg == RSum([k \in 1..Len(avg_keys) |-> custom_metrics[avg_keys[k]]])
        ragas_overall == IF DOMAIN ragas_scores # {}
                         THEN np_mean(dict_values(ragas_scores)) ELSE Float(0)
        custom_overall == np_mean(<<PyDiv(custom_score_avg, Float(Len(avg_keys)))>>
                                  \o dict_values(ragas_scores))
    IN  [ragas_overall |-> ragas_overall,
         custom_overall |-> custom_overall,
         combined_overall |-> PyDiv(RAdd(ragas_overall, custom_overall), Float(2))]

overall_scores_of(ragas_scores, custom_metrics) ==
    LET custom_score_avg == RSum([k \in 1..Len(avg_keys) |-> custom_metrics[avg_keys[k]]])
        custom_count == Len(avg_keys)
        ragas_overall == IF DOMAIN ragas_scores # {}
                         THEN np_mean(dict_values(ragas_scores)) ELSE Float(0)
        custom_overall == IF custom_count > 0
                          THEN PyDiv(custom_score_avg, Float(custom_count))
                          ELSE Float(0)
    IN  [ragas_overall |-> ragas_overall,
         custom_overall |-> custom_overall,
         combined_overall |-> PyDiv(RAdd(ragas_overall, custom_overall), Float(2))]

\* generate_comprehensive_report: the document it saves
generate_comprehensive_report(res, ds) ==
    LET ragas_scores == configured_scores(res.ragas_results)
    IN  [status |-> "written",
         file |-> [name |-> "enhanced-rag-evaluation",
                   ragas_scores |-> ragas_scores,
                   custom_metrics |-> res.custom_metrics,
                   category_analysis |-> res.category_analysis,
                   overall_scores |-> overall_scores_of(ragas_scores, res.custom_metrics),
                   dataset_size |-> Len(ds),
                   detailed_results |-> res.detailed_results]]

\* Mutant: overall_score and grade start as 0 and "F", so the report is saved
\* whatever the results contain.
generate_ragas_report_defaults(res, ds) ==
    LET metrics_scores == configured_scores(res)
        overall_score == IF DOMAIN metrics_scores # {}
                         THEN np_mean(dict_values(metrics_scores)) ELSE Float(0)
    IN  [status |-> "written",
         file |-> [name |-> "ragas-evaluation-results.json",
                   ragas_scores |-> metrics_scores,
                   overall_score |-> overall_score,
                   grade |-> get_overall_grade(overall_score),
                   detailed_results |-> res,
                   dataset_size |-> Len(ds)]]

\* generate_ragas_report: overall_score and grade are bound only when some
\* configured metric is in the results; report_data reads both.
generate_ragas_report(res, ds) ==
    LET metrics_scores == configured_scores(res)
    IN  IF DOMAIN metrics_scores # {}
        THEN LET overall_score == np_mean(dict_values(metrics_scores))
             IN  [status |-> "written",
                  file |-> [name |-> "ragas-evaluation-results.json",
                            ragas_scores |-> metrics_scores,
                            overall_score |-> overall_score,
                            grade |-> get_overall_grade(overall_score),
                            detailed_results |-> res,
                            dataset_size |-> Len(ds)]]
        ELSE [status |-> "raised", exc |-> "UnboundLocalError"]

GenerateReport ==
    /\ pc = "report"
    /\ LET report == IF script = "enhanced"
                     THEN generate_comprehensive_report(results.value, dataset)
                     ELSE generate_ragas_report(results.value, dataset)
       IN  IF report.status = "written"
           THEN /\ files' = Append(files, report.file)
                /\ console' = console \cup {"report_saved"}
           ELSE /\ console' = console \cup {"error_in_main"}
                /\ UNCHANGED files
    /\ pc' = "done"
    /\ UNCHANGED <<call, ret, script, grading, questions, i, ragas_data, detailed_results,
                   queries, kept, metric_calls, dataset, evaluate_calls, results>>

----------------------------------------------------------------------------
(* The state machine: a run of either script's main, or one direct call of   *)
(* calculate_custom_metrics                                                  *)

IdleCall == Call("q1", <<>>, <<>>, <<>>, Float(0))

NoRun ==
    /\ i = 0
    /\ ragas_data = [question |-> <<>>, answer |-> <<>>, contexts |-> <<>>,
                     ground_truth |-> <<>>]
    /\ detailed_results = <<>>
    /\ queries = <<>>
    /\ kept = <<>>
    /\ metric_calls = <<>>
    /\ dataset = <<>>
    /\ evaluate_calls = <<>>
    /\ results = [kind |-> "unset"]
    /\ files = <<>>
    /\ console = {}

NoGrading == [score |-> Float(0), status |-> "idle"]

\* scores in twentieths from -MaxScore/20 to MaxScore/20, and the scores just
\* below the band edges
Scores ==
    {Rat(k, 20) : k \in (-MaxScore)..MaxScore}
    \cup {Rat(10000 * k - 1, 100000) : k \in 5..9}

\* asyncio.run(main()) of one of the scripts, over some catalog
RunInit ==
    /\ call = IdleCall
    /\ grading = NoGrading
    /\ ret = [status |-> "pending"]
    /\ script \in {"enhanced", "ragas"}
    /\ questions \in Catalogs
    /\ pc = "prepare"
    /\ NoRun

\* evaluator.calculate_custom_metrics(...) called on its own
CallInit ==
    /\ call \in Calls
    /\ grading = NoGrading
    /\ ret = [status |-> "pending"]
    /\ script = "enhanced"
    /\ questions = <<>>
    /\ pc = "call"
    /\ NoRun

\* get_score_grade(score) and get_overall_grade(score) called on their own
GradeInit ==
    /\ call = IdleCall
    /\ ret = [status |-> "pending"]
    /\ grading \in {[score |-> s, status |-> "pending"] : s \in Scores}
    /\ script \in {"enhanced", "ragas"}
    /\ questions = <<>>
    /\ pc = "grade"
    /\ NoRun

Init == RunInit \/ CallInit \/ GradeInit

CallMetrics ==
    /\ pc = "call"
    /\ ret' = calculate_custom_metrics(call.question, call.answer,
                                       call.ground_truth, call.contexts,
                                       call.response_time)
    /\ pc' = "called"
    /\ UNCHANGED <<call, script, grading, questions, i, ragas_data, detailed_results,
                   queries, kept, metric_calls, dataset, evaluate_calls, results,
                   files, console>>

GradeScore ==
    /\ pc = "grade"
    /\ grading' = [score |-> grading.score, status |-> "returned",
                   grade |-> IF script = "enhanced"
                             THEN get_score_grade(grading.score)
                             ELSE get_overall_grade(grading.score)]
    /\ pc' = "graded"
    /\ UNCHANGED <<call, ret, script, questions, i, ragas_data, detailed_results,
                   queries, kept, metric_calls, dataset, evaluate_calls, results,
                   files, console>>

Next ==
    \/ PrepareIterate
    \/ MainCheckDataset
    \/ RunEvaluation
    \/ GenerateReport
    \/ CallMetrics
    \/ GradeScore

Spec == Init /\ [][Next]_vars

----------------------------------------------------------------------------
(* Properties *)

InUnit(x) == x[2] > 0 /\ RLe(Float(0), x) /\ RLe(x, Float(1))

WellFormedMetrics(m) ==
    /\ DOMAIN m = MetricNames
    /\ \A k \in MetricNames : InUnit(m[k])

InMain == pc \in {"prepare", "evaluate", "report", "done"}

HasAnswer(q) == q.response.answer # <<>>

Answered == {k \in 1..Len(queries) : HasAnswer(queries[k])}

\* C1: every map calculate_custom_metrics returns has exactly the five metric
\* keys, each a finite value in [0,1], and so has the custom_metrics map of
\* every record in detailed_results.
C1_MetricsInUnitInterval ==
    /\ ret.status = "returned" => WellFormedMetrics(ret.value)
    /\ \A k \in 1..Len(detailed_results) :
          WellFormedMetrics(detailed_results[k].custom_metrics)

C1_Witness ==
    /\ script = "enhanced"
    /\ pc = "done"
    /\ Len(detailed_results) = 2
    /\ ret.status = "returned"
    /\ \E k \in MetricNames :
          RLt(Float(0), detailed_results[1].custom_metrics[k])
          /\ RLt(detailed_results[1].custom_metrics[k], Float(1))

\* C2: in the enhanced script an item whose query returned an empty answer
\* is in no row and no DetailedResult, no metrics are computed for it, and
\* the aggregation averages exactly as many values per metric as there are
\* items with a non-empty answer.
C2_EmptyAnswersExcluded ==
    (script = "enhanced" /\ InMain) =>
        /\ \A k \in 1..Len(queries) :
              ~HasAnswer(queries[k]) =>
                  /\ \A j \in 1..Len(kept) : kept[j] # queries[k].index
                  /\ \A j \in 1..Len(metric_calls) :
                        metric_calls[j] # queries[k].index
        /\ Len(detailed_results) = Len(kept)
        /\ \A j \in 1..Len(detailed_results) :
              /\ detailed_results[j].answer # <<>>
              /\ detailed_results[j].answer = queries[kept[j]].response.answer
        /\ results.kind = "value" =>
              \A m \in MetricNames :
                  Len(metric_values(results.value.detailed_results, m))
                      = Cardinality(Answered)

C2_Witness ==
    /\ script = "enhanced"
    /\ results.kind = "value"
    /\ Len(queries) = 2
    /\ ~HasAnswer(queries[1])
    /\ HasAnswer(queries[2])
    /\ Len(detailed_results) = 1

\* C3: once the prepare loop is over, every catalog item whose query returned
\* a non-empty answer is in exactly one row (and one DetailedResult), and the
\* rows are in catalog order.
C3_OnlyEmptyAnswersExcluded ==
    (InMain /\ pc # "prepare") =>
        /\ \A k \in 1..Len(queries) :
              HasAnswer(queries[k]) =>
                  Cardinality({j \in 1..Len(kept) : kept[j] = queries[k].index}) = 1
        /\ \A j1, j2 \in 1..Len(kept) : j1 < j2 => kept[j1] < kept[j2]
        /\ Len(ragas_data.question) = Len(kept)
        /\ script = "enhanced" => Len(detailed_results) = Len(kept)

\* C4: calculate_custom_metrics never raises: every call returns a metric map.
C4_NeverRaises == ret.status \in {"pending", "returned"}

\* A query that timed out, raised a transport error or returned a non-200
\* status.
FailedOutcome(o) == o.kind # "response" \/ o.status_code # 200

AllSkipped == \A k \in 1..Len(queries) : ~HasAnswer(queries[k])

C6_EmptyDatasetAborts ==
    /\ (InMain /\ pc # "prepare" /\ Len(queries) = Len(questions) /\ AllSkipped)
          => /\ pc = "done"
             /\ "no_valid_data" \in console
             /\ Len(dataset) = 0
             /\ evaluate_calls = <<>>
             /\ results.kind = "unset"
             /\ files = <<>>
    /\ \A k \in 1..Len(evaluate_calls) : Len(evaluate_calls[k].dataset) > 0

C6_Witness ==
    /\ pc = "done"
    /\ Len(questions) = 2
    /\ Len(queries) = 2
    /\ AllSkipped
    /\ "no_valid_data" \in console

\* C7: when evaluate raises, run_*_evaluation returns None, main reports the
\* failure and ends without calling the report generator, and no report file
\* is written.
C7_EvaluateFailureFailsRun ==
    \A k \in 1..Len(evaluate_calls) :
        evaluate_calls[k].raises =>
            /\ results = None
            /\ pc = "done"
            /\ "evaluation_failed" \in console
            /\ "report_saved" \notin console
            /\ files = <<>>

C7_Witness ==
    /\ Len(evaluate_calls) = 1
    /\ evaluate_calls[1].raises
    /\ Len(evaluate_calls[1].dataset) = 2
    /\ pc = "done"

\* The curve of C8, on a response time n/d seconds.
EfficiencyCurve(t) ==
    LET n == t[1]
        d == t[2]
    IN  IF n <= 0 THEN <<0, 1>>
        ELSE IF n < 2 * d THEN Rat(n, 2 * d)
        ELSE IF n <= 8 * d THEN <<1, 1>>
        ELSE IF n >= 80 * d THEN <<1, 10>>
        ELSE Rat(8 * d, n)

\* C8: response_efficiency is 0.0 for t <= 0, t/2 for 0 < t < 2, 1.0 for
\* 2 <= t <= 8 and max(0.1, 8/t) for t > 8; efficiency(5) = 1.0,
\* efficiency(1) = 0.5, efficiency(16) = 0.5, efficiency(0) = 0.0, and for
\* t > 8 it is at least 0.1, exactly 0.1 from t = 80 on.
C8_ResponseEfficiencyCurve ==
    ret.status = "returned" =>
        LET t == call.response_time
            e == ret.value.response_efficiency
        IN  /\ e = EfficiencyCurve(t)
            /\ t = <<5, 1>> => e = <<1, 1>>
            /\ t = <<1, 1>> => e = <<1, 2>>
            /\ t = <<16, 1>> => e = <<1, 2>>
            /\ t = <<0, 1>> => e = <<0, 1>>
            /\ t[1] > 8 * t[2] => 10 * e[1] >= e[2]
            /\ t[1] >= 80 * t[2] => e = <<1, 10>>

C8_Witness ==
    /\ pc = "called"
    /\ ret.status = "returned"
    /\ call.response_time = <<16, 1>>
    /\ ret.value.response_efficiency = <<1, 2>>

\* C9: response_completeness is min(len(answer)/200, 1.0) over the number of
\* characters, 0.0 for the empty answer, 0.5 for 100 characters and exactly
\* 1.0 for 200 characters or more.
C9_ResponseCompleteness ==
    ret.status = "returned" =>
        LET n == Len(call.answer)
            c == ret.value.response_completeness
        IN  /\ c = IF n >= 200 THEN <<1, 1>> ELSE Rat(n, 200)
            /\ n = 0 => c = <<0, 1>>
            /\ n = 100 => c = <<1, 2>>
            /\ n >= 200 => c = <<1, 1>>

C9_Witness ==
    /\ pc = "called"
    /\ ret.status = "returned"
    /\ Len(call.answer) = 100
    /\ ret.value.response_completeness = <<1, 2>>

\* every ASCII capital with its small letter
CapitalPairs ==
    {<<"A", "a">>, <<"B", "b">>, <<"C", "c">>, <<"D", "d">>, <<"E", "e">>,
     <<"F", "f">>, <<"G", "g">>, <<"H", "h">>, <<"I", "i">>, <<"J", "j">>,
     <<"K", "k">>, <<"L", "l">>, <<"M", "m">>, <<"N", "n">>, <<"O", "o">>,
     <<"P", "p">>, <<"Q", "q">>, <<"R", "r">>, <<"S", "s">>, <<"T", "t">>,
     <<"U", "u">>, <<"V", "v">>, <<"W", "w">>, <<"X", "x">>, <<"Y", "y">>,
     <<"Z", "z">>}

SmallOf ==
    [c \in {q[1] : q \in CapitalPairs} |-> (CHOOSE q \in CapitalPairs : q[1] = c)[2]]

\* s with every ASCII capital replaced by its small letter
Lowered(s) ==
    [k \in 1..Len(s) |-> IF s[k] \in DOMAIN SmallOf THEN SmallOf[s[k]] ELSE s[k]]

\* The distinct lowercased whitespace-separated words of s, as the maximal
\* runs of non-whitespace characters.
DistinctWords(s) ==
    LET blank(c) == c \in {" ", "\t", "\n"}
        t == Lowered(s)
        starts == {a \in 1..Len(t) : ~blank(t[a]) /\ (a = 1 \/ blank(t[a - 1]))}
        end(a) == CHOOSE b \in a..Len(t) :
                      /\ \A k \in a..b : ~blank(t[k])
                      /\ b = Len(t) \/ blank(t[b + 1])
    IN  {SubSeq(t, a, end(a)) : a \in starts}

\* C10: context_utilization is the number of distinct lowercased words shared
\* by the answer and the space-joined contexts over the number of distinct
\* lowercased words of the joined contexts, and 0.0 when the contexts list is
\* empty, the answer is empty or the contexts have no word.
C10_ContextUtilization ==
    ret.status = "returned" =>
        LET cw == DistinctWords(join(call.contexts))
            aw == DistinctWords(call.answer)
            u == ret.value.context_utilization
        IN  /\ u = IF call.contexts = <<>> \/ call.answer = <<>> \/ cw = {}
                   THEN <<0, 1>>
                   ELSE Rat(Cardinality(cw \cap aw), Cardinality(cw))
            /\ call.contexts = <<>> => u = <<0, 1>>

C10_Witness ==
    /\ pc = "called"
    /\ ret.status = "returned"
    /\ call.contexts = << <<"a">>, <<"b">> >>
    /\ call.answer = <<"A">>
    /\ ret.value.context_utilization = <<1, 2>>

\* term occurs somewhere in s as a run of consecutive characters
Occurs(term, s) ==
    \E a \in 1..Len(s) :
        \A j \in 1..Len(term) : a + j - 1 <= Len(s) /\ s[a + j - 1] = term[j]

DomainTerms ==
    {<<"$">>, <<"%">>, <<"m", "i", "n", "u", "t", "e", "s">>,
     <<"d", "a", "y", "s">>, <<"y", "e", "a", "r", "s">>,
     <<"s", "c", "o", "r", "e">>, <<"i", "n", "c", "o", "m", "e">>,
     <<"e", "q", "u", "i", "t", "y">>}

\* C11: answer_specificity is k/8, where k is the number of the eight domain
\* terms that occur as a substring of the lowercased answer; a term that occurs
\* several times counts once, and the empty answer scores 0.0.
C11_AnswerSpecificity ==
    ret.status = "returned" =>
        LET v == ret.value.answer_specificity
            k == Cardinality({t \in DomainTerms : Occurs(t, Lowered(call.answer))})
        IN  /\ v = Rat(k, 8)
            /\ \E n \in 0..8 : v = Rat(n, 8)
            /\ call.answer = <<>> => v = <<0, 1>>

C11_Witness ==
    /\ pc = "called"
    /\ ret.status = "returned"
    /\ call.answer = RepeatedAnswer
    /\ ret.value.answer_specificity = <<1, 8>>

\* The call whose answer is "$250,000 in 5 minutes with a 650 score" returned.
DollarAnswerReturned ==
    /\ pc = "called"
    /\ ret.status = "returned"
    /\ call.answer = DollarAnswer

\* C12 as stated: the answer "$250,000 in 5 minutes with a 650 score" has
\* answer_specificity 4/8 = 0.5.
C12_DollarAnswerScoresHalf ==
    DollarAnswerReturned => ret.value.answer_specificity = <<1, 2>>

\* C12, amended: the answer "$250,000 in 5 minutes with a 650 score" has
\* answer_specificity 3/8 = 0.375, because exactly the three terms "$",
\* "minutes" and "score" occur in it.
C12_DollarAnswerScoresThreeEighths ==
    DollarAnswerReturned =>
        /\ ret.value.answer_specificity = <<3, 8>>
        /\ {t \in DomainTerms : Occurs(t, call.answer)}
               = {<<"$">>, <<"m", "i", "n", "u", "t", "e", "s">>,
                  <<"s", "c", "o", "r", "e">>}

C12_Witness ==
    /\ DollarAnswerReturned
    /\ call.ground_truth = <<"a">>
    /\ ret.value.answer_specificity = <<3, 8>>

\* C13: ground_truth_coverage is the number of distinct lowercased words shared
\* by the answer and the ground truth over the number of distinct lowercased
\* words of the ground truth, and 0.0 if either string is empty.  It is not
\* symmetric: answer "a" against ground truth "A b" covers 1/2, answer "A b"
\* against ground truth "a" covers 1.
C13_GroundTruthCoverage ==
    ret.status = "returned" =>
        LET gw == DistinctWords(call.ground_truth)
            aw == DistinctWords(call.answer)
            v == ret.value.ground_truth_coverage
        IN  /\ IF call.ground_truth = <<>> \/ call.answer = <<>>
               THEN v = <<0, 1>>
               ELSE /\ gw # {}
                    /\ v = Rat(Cardinality(gw \cap aw), Cardinality(gw))
            /\ call.answer = <<"a">> /\ call.ground_truth = <<"A", " ", "b">>
                   => v = <<1, 2>>
            /\ call.answer = <<"A", " ", "b">> /\ call.ground_truth = <<"a">>
                   => v = <<1, 1>>

\* Both directions of the pair "a" / "A b" differ.
C13_Witness ==
    /\ pc = "called"
    /\ ret.status = "returned"
    /\ call.answer = <<"a">>
    /\ call.ground_truth = <<"A", " ", "b">>
    /\ ret.value.ground_truth_coverage = <<1, 2>>
    /\ ground_truth_coverage(call.ground_truth, call.answer) = <<1, 1>>

\* n/d >= tenths/10, by cross multiplication
AtLeastTenths(score, tenths) == score[1] * 10 >= tenths * score[2]

\* the letter of the band a score falls in
Band(score) ==
    CASE AtLeastTenths(score, 9) -> "A+"
      [] ~AtLeastTenths(score, 9) /\ AtLeastTenths(score, 8) -> "A"
      [] ~AtLeastTenths(score, 8) /\ AtLeastTenths(score, 7) -> "B"
      [] ~AtLeastTenths(score, 7) /\ AtLeastTenths(score, 6) -> "C"
      [] ~AtLeastTenths(score, 6) /\ AtLeastTenths(score, 5) -> "D"
      [] ~AtLeastTenths(score, 5) -> "F"

\* C14: get_score_grade and get_overall_grade return a grade for every score,
\* by the same bands with inclusive lower edges: >= 0.9 "A+", >= 0.8 "A",
\* >= 0.7 "B", >= 0.6 "C", >= 0.5 "D", otherwise "F".  So grade(0.9) = "A+",
\* grade(0.89999) = "A", grade(0.5) = "D", grade(0.49999) = "F", a score above
\* 1 gets "A+" and a negative score gets "F", in both scripts.
C14_GradeBands ==
    grading.status = "returned" =>
        LET s == grading.score
            g == grading.grade
        IN  /\ g \in {"A+", "A", "B", "C", "D", "F"}
            /\ g = Band(s)
            /\ s = <<9, 10>> => g = "A+"
            /\ s = <<89999, 100000>> => g = "A"
            /\ s = <<1, 2>> => g = "D"
            /\ s = <<49999, 100000>> => g = "F"
            /\ s[1] > s[2] => g = "A+"
            /\ s[1] < 0 => g = "F"

C14_Witness ==
    /\ pc = "graded"
    /\ script = "enhanced"
    /\ grading = [score |-> <<9, 10>>, status |-> "returned", grade |-> "A+"]

\* the enhanced script's run_enhanced_evaluation has returned its results
Evaluated == InMain /\ script = "enhanced" /\ results.kind = "value"

\* the values of one metric over the retained items
ValuesOf(metric) ==
    [k \in 1..Len(detailed_results) |-> detailed_results[k].custom_metrics[metric]]

\* x[1] + ... + x[n]
RECURSIVE SumTo(_, _)
SumTo(x, n) == IF n = 0 THEN <<0, 1>> ELSE RAdd(SumTo(x, n - 1), x[n])

\* arithmetic mean of a non-empty list
Mean(x) == PyDiv(SumTo(x, Len(x)), <<Len(x), 1>>)

\* population variance: the mean of the squares minus the square of the mean
PopulationVariance(x) ==
    RSub(Mean([k \in 1..Len(x) |-> RMul(x[k], x[k])]), RMul(Mean(x), Mean(x)))

\* C15: for the non-empty detailed_results of a run, run_enhanced_evaluation
\* produces exactly ten custom scalars, avg_<metric> and std_<metric> of the five
\* metrics; avg is the arithmetic mean over all retained items and std is the
\* population standard deviation (divisor n); for three items with the values
\* 0.2, 0.4, 0.6 the mean is 0.4 and the std is sqrt(2/75), about 0.163.
C15_MeanAndPopulationStd ==
    Evaluated =>
        LET cm == results.value.custom_metrics
            rc == ValuesOf("response_completeness")
        IN  /\ detailed_results # <<>>
            /\ DOMAIN cm =
                  {"avg_response_completeness", "std_response_completeness",
                   "avg_context_utilization", "std_context_utilization",
                   "avg_response_efficiency", "std_response_efficiency",
                   "avg_answer_specificity", "std_answer_specificity",
                   "avg_ground_truth_coverage", "std_ground_truth_coverage"}
            /\ cm.avg_response_completeness = Mean(rc)
            /\ cm.std_response_completeness = [sqrt |-> PopulationVariance(rc)]
            /\ cm.avg_context_utilization = Mean(ValuesOf("context_utilization"))
            /\ cm.std_context_utilization =
                  [sqrt |-> PopulationVariance(ValuesOf("context_utilization"))]
            /\ cm.avg_response_efficiency = Mean(ValuesOf("response_efficiency"))
            /\ cm.std_response_efficiency =
                  [sqrt |-> PopulationVariance(ValuesOf("response_efficiency"))]
            /\ cm.avg_answer_specificity = Mean(ValuesOf("answer_specificity"))
            /\ cm.std_answer_specificity =
                  [sqrt |-> PopulationVariance(ValuesOf("answer_specificity"))]
            /\ cm.avg_ground_truth_coverage = Mean(ValuesOf("ground_truth_coverage"))
            /\ cm.std_ground_truth_coverage =
                  [sqrt |-> PopulationVariance(ValuesOf("ground_truth_coverage"))]
            /\ rc = << <<1, 5>>, <<2, 5>>, <<3, 5>> >> =>
                  LET v == cm.std_response_completeness.sqrt
                  IN  /\ cm.avg_response_completeness = <<2, 5>>
                      /\ v = <<2, 75>>
                      /\ 163 * 163 * v[2] <= 1000000 * v[1]
                      /\ 1000000 * v[1] < 164 * 164 * v[2]

C15_Witness ==
    /\ Evaluated
    /\ ValuesOf("response_completeness") = << <<1, 5>>, <<2, 5>>, <<3, 5>> >>
    /\ results.value.custom_metrics.avg_response_completeness = <<2, 5>>
    /\ results.value.custom_metrics.std_response_completeness = [sqrt |-> <<2, 75>>]

\* the positions of the retained items of category c
InCategory(c) == {k \in 1..Len(detailed_results) : detailed_results[k].category = c}

\* the sum of f over the finite set S
RECURSIVE SumOver(_, _)
SumOver(f, S) ==
    IF S = {} THEN <<0, 1>>
    ELSE LET k == CHOOSE k \in S : TRUE
         IN  RAdd(f[k], SumOver(f, S \ {k}))

\* the mean of an item's five metric values
ItemScore(r) ==
    LET m == r.custom_metrics
    IN  PyDiv(RAdd(RAdd(RAdd(m.response_completeness, m.context_utilization),
                        RAdd(m.response_efficiency, m.answer_specificity)),
                   m.ground_truth_coverage),
              <<5, 1>>)

\* C16: for each category that occurs in detailed_results, and for no other,
\* the category aggregate holds the number of retained items of the category,
\* the mean over them of each item's own mean of its five metric values, and
\* their mean response time; an item whose catalog entry has no category is
\* grouped under "general".
C16_CategoryAggregates ==
    Evaluated =>
        LET ca == results.value.category_analysis
            n == Len(detailed_results)
        IN  /\ DOMAIN ca = {detailed_results[k].category : k \in 1..n}
            /\ \A c \in DOMAIN ca :
                  /\ ca[c].count = Cardinality(InCategory(c))
                  /\ ca[c].count > 0
                  /\ ca[c].avg_custom_score =
                        PyDiv(SumOver([k \in 1..n |-> ItemScore(detailed_results[k])],
                                      InCategory(c)),
                              <<Cardinality(InCategory(c)), 1>>)
                  /\ ca[c].avg_response_time =
                        PyDiv(SumOver([k \in 1..n |-> detailed_results[k].response_time],
                                      InCategory(c)),
                              <<Cardinality(InCategory(c)), 1>>)
            /\ \A k \in 1..n :
                  detailed_results[k].category =
                      IF "category" \in DOMAIN questions[kept[k]]
                      THEN questions[kept[k]].category
                      ELSE "general"

\* Two items of "rates_fees" around one item without a category.
C16_Witness ==
    /\ Evaluated
    /\ Len(detailed_results) = 3
    /\ "category" \notin DOMAIN questions[2]
    /\ DOMAIN results.value.category_analysis = {"rates_fees", "general"}
    /\ results.value.category_analysis["rates_fees"].count = 2
    /\ results.value.category_analysis["general"].count = 1
    /\ results.value.category_analysis["rates_fees"].avg_response_time = <<2, 1>>
    /\ results.value.category_analysis["general"].avg_response_time = <<3, 1>>

\* the enhanced script has saved its report
Reported == InMain /\ script = "enhanced" /\ files # <<>>

\* the mean of the five avg_ values of the custom metrics cm
CustomOverall(cm) ==
    PyDiv(RAdd(RAdd(RAdd(cm.avg_response_completeness, cm.avg_context_utilization),
                    RAdd(cm.avg_response_efficiency, cm.avg_answer_specificity)),
               cm.avg_ground_truth_coverage),
          <<5, 1>>)

\* the mean of the reported RAGAS scores, 0 when there is none
RagasOverall(scores) ==
    IF DOMAIN scores = {} THEN <<0, 1>>
    ELSE PyDiv(SumOver(scores, DOMAIN scores), <<Cardinality(DOMAIN scores), 1>>)

\* C17: the custom overall score of the saved report is the mean of exactly
\* the five avg_<metric> values, a function of the custom metrics alone: whatever
\* RAGAS scores the run got, or none, the same custom metrics give the same
\* custom_overall.  combined_overall is the average of the RAGAS overall score
\* and the custom overall score.
C17_CustomOverallIndependent ==
    Reported =>
        LET f == files[1]
            o == f.overall_scores
        IN  /\ f.custom_metrics = results.value.custom_metrics
            /\ o.custom_overall = CustomOverall(results.value.custom_metrics)
            /\ o.ragas_overall = RagasOverall(f.ragas_scores)
            /\ o.combined_overall =
                  PyDiv(RAdd(o.ragas_overall, o.custom_overall), <<2, 1>>)

\* A report with two RAGAS scores (overall 0.7) over one retained item.
C17_Witness ==
    /\ Reported
    /\ Len(detailed_results) = 1
    /\ detailed_results[1].answer = <<"a">>
    /\ detailed_results[1].ground_truth = <<"a">>
    /\ detailed_results[1].response_time = <<1, 1>>
    /\ DOMAIN files[1].ragas_scores = {"faithfulness", "answer_relevancy"}
    /\ files[1].overall_scores =
          [ragas_overall |-> <<7, 10>>, custom_overall |-> <<301, 1000>>,
           combined_overall |-> <<1001, 2000>>]

\* C18: calculate_custom_metrics is a function of answer, ground truth,
\* contexts and response time alone.  What a call produced is what the same
\* arguments produce under any other question, and the metrics stored for an
\* item of a run, as the loop builds the list and as evaluation receives it,
\* are those of its own answer, ground truth, contexts and response time,
\* whatever items were scored before it.
C18_MetricsPure ==
    /\ ret.status \in {"returned", "raised"} =>
          \A q \in Questions \cup {call.question} :
              calculate_custom_metrics(q, call.answer, call.ground_truth,
                                       call.contexts, call.response_time) = ret
    /\ script = "enhanced" /\ pc \in {"prepare", "evaluate"} =>
          \A k \in 1..Len(detailed_results) :
              LET r == detailed_results[k]
              IN  calculate_custom_metrics("q1", r.answer, r.ground_truth,
                                           r.contexts, r.response_time)
                      = [status |-> "returned", value |-> r.custom_metrics]

\* A call under the question "q2" whose result is that of the question "q1".
C18_Witness ==
    /\ pc = "called"
    /\ call.question = "q2"
    /\ call.answer = <<"A", " ", "b">>
    /\ ret.status = "returned"
    /\ calculate_custom_metrics("q1", call.answer, call.ground_truth,
                                 call.contexts, call.response_time) = ret

\* prepare_*_dataset has returned its dataset to main
PrepareReturned ==
    InMain /\ (pc \in {"evaluate", "report"} \/ "no_valid_data" \in console
                  \/ evaluate_calls # <<>>)

\* C19: after every iteration of the prepare_enhanced_dataset loop the four
\* RAGAS columns and detailed_results have the same length, and their k-th
\* entries hold the question and ground truth of one catalog item and the
\* answer the service gave for it; so the dataset main receives is empty
\* exactly when detailed_results is empty, and evaluation and aggregation are
\* never reached with an empty detailed_results.
C19_ColumnsAligned ==
    InMain /\ script = "enhanced" =>
        LET n == Len(detailed_results)
        IN  /\ Len(ragas_data.question) = n
            /\ Len(ragas_data.answer) = n
            /\ Len(ragas_data.contexts) = n
            /\ Len(ragas_data.ground_truth) = n
            /\ Len(kept) = n
            /\ \A k \in 1..n :
                  LET qa == questions[kept[k]]
                      r == queries[kept[k]].response
                      d == detailed_results[k]
                  IN  /\ kept[k] <= i
                      /\ \A j \in 1..(k - 1) : kept[j] < kept[k]
                      /\ ragas_data.question[k] = qa.question
                      /\ d.question = qa.question
                      /\ ragas_data.ground_truth[k] = qa.ground_truth
                      /\ d.ground_truth = qa.ground_truth
                      /\ ragas_data.answer[k] = r.answer
                      /\ d.answer = r.answer
                      /\ ragas_data.contexts[k] \in {r.contexts, <<NoContext>>}
            /\ PrepareReturned =>
                  /\ Len(dataset) = n
                  /\ Len(dataset) = 0 <=> detailed_results = <<>>
            /\ evaluate_calls # <<>> \/ results.kind = "value" \/ files # <<>>
                  => detailed_results # <<>>

\* The first of two items was skipped, the second is row 1 of every column.
C19_Witness ==
    /\ InMain
    /\ script = "enhanced"
    /\ pc = "evaluate"
    /\ Len(questions) = 2
    /\ questions[1] # questions[2]
    /\ kept = <<2>>
    /\ Len(detailed_results) = 1
    /\ Len(ragas_data.contexts) = 1
    /\ Len(dataset) = 1
    /\ detailed_results[1].question = questions[2].question

\* the catalog positions in the sequence of positions s
Positions(s) == {s[k] : k \in 1..Len(s)}

RECURSIVE CountSum(_, _)
CountSum(ca, S) ==
    IF S = {} THEN 0
    ELSE LET c == CHOOSE c \in S : TRUE
         IN  ca[c].count + CountSum(ca, S \ {c})

\* C21: the category aggregates of run_enhanced_evaluation partition
\* detailed_results: every retained item belongs to exactly one aggregate,
\* which counts it; every aggregate has count >= 1; and the counts add up to
\* the number n of retained items, the n that the per-metric means divide by.
C21_CategoriesPartition ==
    Evaluated =>
        LET ca == results.value.category_analysis
            cm == results.value.custom_metrics
            n == Len(detailed_results)
        IN  /\ \A k \in 1..n :
                  /\ Cardinality({c \in DOMAIN ca : detailed_results[k].category = c}) = 1
                  /\ k \in InCategory(detailed_results[k].category)
            /\ \A c \in DOMAIN ca :
                  /\ ca[c].count >= 1
                  /\ ca[c].count = Cardinality(InCategory(c))
            /\ \A c, e \in DOMAIN ca : c # e => InCategory(c) \cap InCategory(e) = {}
            /\ CountSum(ca, DOMAIN ca) = n
            /\ RMul(cm.avg_response_efficiency, <<n, 1>>)
                  = SumTo(ValuesOf("response_efficiency"), n)

\* Three retained items: two without a category, one of "rates_fees".
C21_Witness ==
    /\ Evaluated
    /\ Len(detailed_results) = 3
    /\ detailed_results[1].category = "general"
    /\ detailed_results[2].category = "rates_fees"
    /\ detailed_results[3].category = "general"
    /\ results.value.category_analysis["general"].count = 2
    /\ results.value.category_analysis["rates_fees"].count = 1
    /\ CountSum(results.value.category_analysis,
                 DOMAIN results.value.category_analysis) = 3

\* the names of the six metrics the RAGAS-only evaluator is configured with
ConfiguredNames ==
    {"faithfulness", "answer_relevancy", "context_precision", "context_recall",
     "answer_similarity", "answer_correctness"}

\* the RAGAS-only run got non-empty results without any configured metric
NoConfiguredScore ==
    /\ InMain
    /\ script = "ragas"
    /\ results.kind = "value"
    /\ DOMAIN results.value # {}
    /\ DOMAIN results.value \cap ConfiguredNames = {}

\* C22: in the RAGAS-only script ragas-evaluation-results.json is written
\* only when the non-empty results contain at least one of the six configured
\* metric names, and then once, with the overall score and its grade.  If none
\* is present, report generation fails on the unassigned overall score before
\* the file is opened, main catches the error, and the run ends without a
\* results file.
C22_ReportNeedsConfiguredScore ==
    InMain /\ script = "ragas" =>
        /\ files # <<>> =>
              /\ Len(files) = 1
              /\ results.kind = "value"
              /\ DOMAIN results.value \cap ConfiguredNames # {}
              /\ DOMAIN files[1].ragas_scores = DOMAIN results.value \cap ConfiguredNames
              /\ files[1].overall_score =
                    PyDiv(SumOver(files[1].ragas_scores, DOMAIN files[1].ragas_scores),
                          <<Cardinality(DOMAIN files[1].ragas_scores), 1>>)
              /\ files[1].grade = Band(files[1].overall_score)
              /\ "report_saved" \in console
              /\ "error_in_main" \notin console
        /\ NoConfiguredScore =>
              /\ files = <<>>
              /\ "report_saved" \notin console
              /\ pc \in {"report", "done"}
              /\ pc = "done" => "error_in_main" \in console
        /\ pc = "done" /\ results.kind = "value"
              /\ DOMAIN results.value \cap ConfiguredNames # {} => Len(files) = 1

\* The run whose results hold only an unconfigured metric ended in main's
\* except clause, without a file.
C22_Witness ==
    /\ NoConfiguredScore
    /\ pc = "done"
    /\ DOMAIN results.value = {"other_metric"}
    /\ evaluate_calls # <<>>
    /\ files = <<>>
    /\ "error_in_main" \in console

====
